---- MODULE Spec2Model ----
(***************************************************************************)
(* Event-Ticket: ticket issuance (POST /api/payments/create-order,         *)
(* POST /api/payments/verify) and gate scanning (POST /api/scans/verify)   *)
(* over the storage layer of server/storage.ts.                            *)
(*                                                                         *)
(* Every `await storage.X(...)` of a route handler is one atomic step      *)
(* against the database; the handler's local computation between two       *)
(* awaits belongs to the step that precedes it.  Several requests of the   *)
(* same route run concurrently, each in its own handler slot.              *)
(***************************************************************************)
EXTENDS Integers, Sequences, FiniteSets, TLC

VARIABLES
    ticketTiers,   \* table ticket_tiers : tier id -> row
    payments,      \* table payments     : sequence of rows, id = index
    tickets,       \* table tickets      : sequence of rows, id = index
    entryScans,    \* table entry_scans  : sequence of rows, id = index
    now,           \* the wall clock read by `new Date()`
    order,         \* create-order handlers : slot -> locals
    verify,        \* payment-verify handlers : slot -> locals
    scan,          \* scan-verify handlers : slot -> locals
    gen,           \* a call of generateTicketCode : its locals
    cart,          \* the storefront's cart : tier id -> line
    users,         \* table users : user id -> row
    organizations, \* table organizations : sequence of rows, id = index
    events,        \* table events : sequence of rows, id = index
    create         \* create-event handlers : slot -> locals

vars ==
    <<ticketTiers, payments, tickets, entryScans, now, order, verify, scan, gen,
      cart, users, organizations, events, create>>

(***************************************************************************)
(* Bounds of the model.                                                    *)
(***************************************************************************)
NOrder == 2      \* create-order requests
NVerify == 2     \* payment-verify requests
NScan == 2       \* scan requests
MaxQty == 2      \* largest quantity of a cart line
NumCodes == 3    \* size of the ticket-code space (32^8 in the code)
MaxClock == 3    \* last instant of the clock
RandGrid == 4    \* Math.random() returns one of 0/RandGrid .. (RandGrid-1)/RandGrid
NCreate == 2     \* create-event requests
MaxStock == 2    \* largest quantity, soldCount and maxPerOrder of a displayed tier

OrderReqs == 1..NOrder
VerifyReqs == 1..NVerify
ScanReqs == 1..NScan
TicketCodes == 1..NumCodes
CreateReqs == 1..NCreate

Users == {"u1", "u2"}
Buyers == {"u1"}     \* the users who check out a cart
Events == {"E1", "E2"}
Tiers == {"tA", "tB"}

Null == 0        \* SQL NULL / undefined for ids, codes and timestamps

PaymentStatus == {"pending", "completed", "failed", "refunded"}
TicketStatus == {"pending", "confirmed", "cancelled", "refunded", "scanned"}

(***************************************************************************)
(* Cart lines and carts a client can post: one or two lines, each on a     *)
(* tier of its own.                                                        *)
(***************************************************************************)
CartItems == [tierId : Tiers, quantity : 1..MaxQty]

Carts ==
    {<<a>> : a \in CartItems}
        \cup {<<a, b>> : a \in {x \in CartItems : x.tierId = "tA"},
                         b \in {x \in CartItems : x.tierId = "tB"}}

\* the storefront posts the event of the page the cart was filled on
CartEvent(items) == "E1"

\* (mutant) the lines counted instead of their quantities
SumQuantityLines(items) == Len(items)

RECURSIVE SumQuantity(_)
SumQuantity(items) ==
    IF items = <<>> THEN 0
    ELSE Head(items).quantity + SumQuantity(Tail(items))

(***************************************************************************)
(* Storage layer (DatabaseStorage).  Each operator is the table after the  *)
(* statement, or the row(s) the statement returns.                         *)
(***************************************************************************)
getTicketTier(id) == ticketTiers[id]

updateTicketTierSoldCount(id, increment) ==
    [ticketTiers EXCEPT ![id].soldCount = @ + increment]

getPaymentByRazorpayOrderId(orderId) ==
    IF \E p \in 1..Len(payments) : payments[p].razorpayOrderId = orderId
    THEN CHOOSE p \in 1..Len(payments) : payments[p].razorpayOrderId = orderId
    ELSE Null

createPayment(data) == Append(payments, data)

\* (mutant) a lookup that falls back to the first row
getTicketByCodeOrFirst(code) ==
    IF \E k \in 1..Len(tickets) : tickets[k].ticketCode = code
    THEN CHOOSE k \in 1..Len(tickets) : tickets[k].ticketCode = code
    ELSE IF Len(tickets) > 0 THEN 1 ELSE Null

getTicketByCode(code) ==
    IF \E k \in 1..Len(tickets) : tickets[k].ticketCode = code
    THEN CHOOSE k \in 1..Len(tickets) : tickets[k].ticketCode = code
    ELSE Null

\* (mutant) a ticket table without the unique constraint
TicketCodeConflictNever(code) == FALSE

\* the unique constraint of tickets.ticket_code: an insert of a code that a
\* row already holds is refused
TicketCodeConflict(code) ==
    \E k \in 1..Len(tickets) : tickets[k].ticketCode = code

createTicket(data) == Append(tickets, data)

\* (mutant) an update that leaves the status column out
updateTicketNoStatus(id, status, scannedAt, scannedByUserId) ==
    [tickets EXCEPT ![id].scannedAt = scannedAt,
                    ![id].scannedByUserId = scannedByUserId]

updateTicket(id, status, scannedAt, scannedByUserId) ==
    [tickets EXCEPT ![id].status = status,
                    ![id].scannedAt = scannedAt,
                    ![id].scannedByUserId = scannedByUserId]

createEntryScan(data) == Append(entryScans, data)

(***************************************************************************)
(* Initial state: two tiers of event E1, nothing sold, no payment, no      *)
(* ticket, every handler slot free.                                        *)
(***************************************************************************)
InitTiers ==
    [t \in Tiers |->
        [eventId   |-> "E1",
         quantity  |-> IF t = "tA" THEN 1 ELSE 2,
         soldCount |-> 0,
         isActive  |-> TRUE,
         maxPerOrder |-> {10}]]     \* a nullable column: {} is NULL, {n} is n

NullTicket ==
    [ticketTierId |-> "tA", userId |-> "u1", paymentId |-> Null,
     ticketCode |-> Null, status |-> "pending", scannedAt |-> Null,
     scannedByUserId |-> "none"]

IdleOrder == [pc |-> "idle", items |-> <<>>, payment |-> Null]

IdleVerify ==
    [pc |-> "idle", userId |-> "none", verified |-> TRUE, payment |-> Null,
     items |-> <<>>,
     line |-> 1, i |-> 0, tickets |-> <<>>, res |-> "none"]

IdleScan ==
    [pc |-> "idle", userId |-> "none", ticketCode |-> Null, eventId |-> "none",
     ticketId |-> Null, ticket |-> NullTicket, res |-> "none"]

IdleGen == [pc |-> "idle", code |-> <<>>, i |-> 0]

\* new Map()
EmptyCart == [t \in {} |-> Null]

\* the users who create events: their ids (the `sub` claim of the session) as
\* character strings; two of them begin with the same eight characters
Organisers ==
    {<<"a", "b", "c", "d", "e", "f", "g", "h", "1">>,
     <<"a", "b", "c", "d", "e", "f", "g", "h", "2">>,
     <<"z", "1">>}

\* no user has an organization yet
InitUsers == [u \in Organisers |-> [organizationId |-> Null]]

IdleCreate ==
    [pc |-> "idle", userId |-> <<>>, tiersData |-> <<>>, organizationId |-> Null,
     event |-> Null, i |-> 0, res |-> "none"]

Init ==
    /\ ticketTiers = InitTiers
    /\ payments = <<>>
    /\ tickets = <<>>
    /\ entryScans = <<>>
    /\ now = 1
    /\ order = [o \in OrderReqs |-> IdleOrder]
    /\ verify = [h \in VerifyReqs |-> IdleVerify]
    /\ scan = [s \in ScanReqs |-> IdleScan]
    /\ gen = IdleGen
    /\ cart = EmptyCart
    /\ users = InitUsers
    /\ organizations = <<>>
    /\ events = <<>>
    /\ create = [c \in CreateReqs |-> IdleCreate]

\* Requests take the handler slots in the order they arrive.
Arrived(slots, n) == IF n = 1 THEN TRUE ELSE slots[n - 1].pc # "idle"

(***************************************************************************)
(* The clock.                                                              *)
(***************************************************************************)
Tick ==
    /\ now < MaxClock
    /\ now' = now + 1
    /\ UNCHANGED <<gen, cart, users, organizations, events, create, ticketTiers, payments, tickets, entryScans, order, verify, scan>>

(***************************************************************************)
(* POST /api/payments/create-order                                         *)
(***************************************************************************)
CreateOrderCreatePayment(o, userId, eventId, items) ==
    /\ order[o].pc = "idle"
    /\ Arrived(order, o)
    /\ payments' = createPayment(
           [userId |-> userId, eventId |-> eventId,
            ticketQuantity |-> SumQuantity(items), status |-> "pending",
            metadata |-> items, razorpayOrderId |-> Null,
            razorpayPaymentId |-> Null, completedAt |-> Null])
    /\ order' = [order EXCEPT ![o] = [pc |-> "updatePayment", items |-> items,
                                      payment |-> Len(payments) + 1]]
    /\ UNCHANGED <<gen, cart, users, organizations, events, create, ticketTiers, tickets, entryScans, now, verify, scan>>

\* (mutant) an update that writes a whole new row, the cart left out
CreateOrderUpdatePaymentWholeRow(o) ==
    /\ order[o].pc = "updatePayment"
    /\ payments' = [payments EXCEPT ![order[o].payment] =
                       [@ EXCEPT !.razorpayOrderId = order[o].payment,
                                 !.metadata = <<>>]]
    /\ order' = [order EXCEPT ![o].pc = "done"]
    /\ UNCHANGED <<gen, cart, users, organizations, events, create, ticketTiers, tickets, entryScans, now, verify, scan>>

\* razorpayOrderId = `order_${payment.id}`, one-to-one with the payment id
CreateOrderUpdatePayment(o) ==
    /\ order[o].pc = "updatePayment"
    /\ payments' = [payments EXCEPT ![order[o].payment].razorpayOrderId =
                                        order[o].payment]
    /\ order' = [order EXCEPT ![o].pc = "done"]
    /\ UNCHANGED <<gen, cart, users, organizations, events, create, ticketTiers, tickets, entryScans, now, verify, scan>>

(***************************************************************************)
(* POST /api/payments/verify                                               *)
(***************************************************************************)
\* where the nested loops stand once line `line` begins
LoopPc(items, line) ==
    IF line > Len(items) THEN "done"
    ELSE IF 0 < items[line].quantity THEN "createTicket"
    ELSE "updateSoldCount"

\* `verified` is whether razorpaySignature is the gateway's signature of the
\* order and payment ids; the handler reads the signature and stores it
VerifyGetPayment(h, userId, razorpayOrderId, verified) ==
    /\ verify[h].pc = "idle"
    /\ Arrived(verify, h)
    /\ LET p == getPaymentByRazorpayOrderId(razorpayOrderId) IN
         verify' = [verify EXCEPT ![h] =
            IF p = Null
            THEN [@ EXCEPT !.pc = "done", !.userId = userId,
                           !.verified = verified, !.res = "not_found"]
            ELSE [@ EXCEPT !.pc = "updatePayment", !.userId = userId,
                           !.verified = verified,
                           !.payment = p, !.items = payments[p].metadata]]
    /\ UNCHANGED <<gen, cart, users, organizations, events, create, ticketTiers, payments, tickets, entryScans, now, order, scan>>

\* (mutant) the gateway ids stored, the status left pending
VerifyUpdatePaymentKeepStatus(h) ==
    /\ verify[h].pc = "updatePayment"
    /\ payments' = [payments EXCEPT ![verify[h].payment].razorpayPaymentId =
                                        verify[h].payment]
    /\ LET pc == LoopPc(verify[h].items, 1) IN
         verify' = [verify EXCEPT ![h].pc = pc,
                                  ![h].res = IF pc = "done" THEN "success" ELSE @]
    /\ UNCHANGED <<gen, cart, users, organizations, events, create, ticketTiers, tickets, entryScans, now, order, scan>>

\* razorpayPaymentId is the gateway's payment of the order, one per order, so
\* the unique constraint of payments.razorpay_payment_id is never hit
VerifyUpdatePayment(h) ==
    /\ verify[h].pc = "updatePayment"
    /\ payments' = [payments EXCEPT ![verify[h].payment].status = "completed",
                                    ![verify[h].payment].razorpayPaymentId =
                                        verify[h].payment,
                                    ![verify[h].payment].completedAt = now]
    /\ LET pc == LoopPc(verify[h].items, 1) IN
         verify' = [verify EXCEPT ![h].pc = pc,
                                  ![h].res = IF pc = "done" THEN "success" ELSE @]
    /\ UNCHANGED <<gen, cart, users, organizations, events, create, ticketTiers, tickets, entryScans, now, order, scan>>

\* generateTicketCode() draws any code of the code space.  Codes are
\* interchangeable, so they are named in the order they are first drawn: a
\* draw is either one of the codes drawn before or the next new one.
generateTicketCode == {c \in TicketCodes : c <= Len(tickets) + 1}

VerifyCreateTicket(h, ticketCode) ==
    /\ verify[h].pc = "createTicket"
    /\ ticketCode \in generateTicketCode
    /\ LET item == verify[h].items[verify[h].line] IN
         IF TicketCodeConflict(ticketCode)
         THEN \* the insert throws; the catch block answers 500
              /\ verify' = [verify EXCEPT ![h].pc = "done", ![h].res = "error"]
              /\ UNCHANGED tickets
         ELSE /\ tickets' = createTicket(
                     [ticketTierId |-> item.tierId, userId |-> verify[h].userId,
                      paymentId |-> verify[h].payment, ticketCode |-> ticketCode,
                      status |-> "confirmed", scannedAt |-> Null,
                      scannedByUserId |-> "none"])
              /\ verify' = [verify EXCEPT
                     ![h].tickets = Append(@, Len(tickets) + 1),
                     ![h].i = @ + 1,
                     ![h].pc = IF verify[h].i + 1 < item.quantity
                               THEN "createTicket" ELSE "updateSoldCount"]
    /\ UNCHANGED <<gen, cart, users, organizations, events, create, ticketTiers, payments, entryScans, now, order, scan>>

VerifyUpdateSoldCount(h) ==
    /\ verify[h].pc = "updateSoldCount"
    /\ LET item == verify[h].items[verify[h].line]
           pc == LoopPc(verify[h].items, verify[h].line + 1) IN
         /\ ticketTiers' = updateTicketTierSoldCount(item.tierId, item.quantity)
         /\ verify' = [verify EXCEPT ![h].line = @ + 1, ![h].i = 0, ![h].pc = pc,
                                     ![h].res = IF pc = "done" THEN "success" ELSE @]
    /\ UNCHANGED <<gen, cart, users, organizations, events, create, payments, tickets, entryScans, now, order, scan>>

(***************************************************************************)
(* POST /api/scans/verify                                                  *)
(***************************************************************************)
\* (mutant) the status checks made before the event check
ScanResultStatusFirst(ticket, tier, eventId) ==
    IF ticket.status = "scanned" THEN "already_scanned"
    ELSE IF ticket.status = "cancelled" \/ ticket.status = "refunded" THEN "expired"
    ELSE IF tier.eventId # eventId THEN "wrong_event"
    ELSE "success"

\* (mutant) no event check
ScanResultAnyEvent(ticket, tier, eventId) ==
    IF ticket.status = "scanned" THEN "already_scanned"
    ELSE IF ticket.status = "cancelled" \/ ticket.status = "refunded" THEN "expired"
    ELSE "success"

\* (mutant) no already-scanned check
ScanResultRescan(ticket, tier, eventId) ==
    IF tier.eventId # eventId THEN "wrong_event"
    ELSE IF ticket.status = "cancelled" \/ ticket.status = "refunded" THEN "expired"
    ELSE "success"

\* (mutant) no cancelled/refunded check
ScanResultNoExpiry(ticket, tier, eventId) ==
    IF tier.eventId # eventId THEN "wrong_event"
    ELSE IF ticket.status = "scanned" THEN "already_scanned"
    ELSE "success"

\* the checks made on the ticket and tier rows the handler has read, in the
\* order the handler makes them
ScanResult(ticket, tier, eventId) ==
    IF tier.eventId # eventId THEN "wrong_event"
    ELSE IF ticket.status = "scanned" THEN "already_scanned"
    ELSE IF ticket.status = "cancelled" \/ ticket.status = "refunded" THEN "expired"
    ELSE "success"

ScanGetTicketByCode(s, userId, ticketCode, eventId) ==
    /\ scan[s].pc = "idle"
    /\ Arrived(scan, s)
    /\ LET k == getTicketByCode(ticketCode) IN
         scan' = [scan EXCEPT ![s] =
            IF k = Null
            THEN [@ EXCEPT !.pc = "done", !.userId = userId,
                           !.ticketCode = ticketCode, !.eventId = eventId,
                           !.res = "invalid"]
            ELSE [@ EXCEPT !.pc = "getTicketTier", !.userId = userId,
                           !.ticketCode = ticketCode, !.eventId = eventId,
                           !.ticketId = k, !.ticket = tickets[k]]]
    /\ UNCHANGED <<gen, cart, users, organizations, events, create, ticketTiers, payments, tickets, entryScans, now, order, verify>>

ScanGetTicketTier(s) ==
    /\ scan[s].pc = "getTicketTier"
    /\ LET tier == getTicketTier(scan[s].ticket.ticketTierId)
           r == ScanResult(scan[s].ticket, tier, scan[s].eventId) IN
         scan' = [scan EXCEPT ![s] =
            IF r = "success"
            THEN [@ EXCEPT !.pc = "updateTicket"]
            ELSE [@ EXCEPT !.pc = "done", !.res = r]]
    /\ UNCHANGED <<gen, cart, users, organizations, events, create, ticketTiers, payments, tickets, entryScans, now, order, verify>>

ScanUpdateTicket(s) ==
    /\ scan[s].pc = "updateTicket"
    /\ tickets' = updateTicket(scan[s].ticketId, "scanned", now, scan[s].userId)
    /\ scan' = [scan EXCEPT ![s].pc = "createEntryScan"]
    /\ UNCHANGED <<gen, cart, users, organizations, events, create, ticketTiers, payments, entryScans, now, order, verify>>

ScanCreateEntryScan(s) ==
    /\ scan[s].pc = "createEntryScan"
    /\ entryScans' = createEntryScan(
           [ticketId |-> scan[s].ticketId, scannedByUserId |-> scan[s].userId,
            eventId |-> scan[s].eventId, scanResult |-> "success"])
    /\ scan' = [scan EXCEPT ![s].pc = "getEvent"]
    /\ UNCHANGED <<gen, cart, users, organizations, events, create, ticketTiers, payments, tickets, now, order, verify>>

ScanGetEvent(s) ==
    /\ scan[s].pc = "getEvent"
    /\ scan' = [scan EXCEPT ![s].pc = "done", ![s].res = "success"]
    /\ UNCHANGED <<gen, cart, users, organizations, events, create, ticketTiers, payments, tickets, entryScans, now, order, verify>>

(***************************************************************************)
(* Issuance: orders and payment confirmations, from an empty shop.  The    *)
(* routes store the instant they run at (completedAt) and never read one   *)
(* back, so issuance is explored at one instant.  In Spec every            *)
(* confirmation carries a valid gateway signature and both tiers are       *)
(* active; SpecAny below also takes invalid signatures and an inactive     *)
(* tier (the routes read neither).                                         *)
(***************************************************************************)
Next ==
    \/ \E o \in OrderReqs, u \in Buyers, c \in Carts :
          CreateOrderCreatePayment(o, u, CartEvent(c), c)
    \/ \E o \in OrderReqs : CreateOrderUpdatePayment(o)
    \/ \E h \in VerifyReqs, u \in Users, oid \in OrderReqs :
          VerifyGetPayment(h, u, oid, TRUE)
    \/ \E h \in VerifyReqs : VerifyUpdatePayment(h)
    \/ \E h \in VerifyReqs, c \in TicketCodes : VerifyCreateTicket(h, c)
    \/ \E h \in VerifyReqs : VerifyUpdateSoldCount(h)

Spec == Init /\ [][Next]_vars

InitAny ==
    /\ \E a \in BOOLEAN : ticketTiers = [InitTiers EXCEPT !["tB"].isActive = a]
    /\ payments = <<>>
    /\ tickets = <<>>
    /\ entryScans = <<>>
    /\ now = 1
    /\ order = [o \in OrderReqs |-> IdleOrder]
    /\ verify = [h \in VerifyReqs |-> IdleVerify]
    /\ scan = [s \in ScanReqs |-> IdleScan]
    /\ gen = IdleGen
    /\ cart = EmptyCart
    /\ users = InitUsers
    /\ organizations = <<>>
    /\ events = <<>>
    /\ create = [c \in CreateReqs |-> IdleCreate]

NextAny ==
    \/ \E o \in OrderReqs, u \in Buyers, c \in Carts :
          CreateOrderCreatePayment(o, u, CartEvent(c), c)
    \/ \E o \in OrderReqs : CreateOrderUpdatePayment(o)
    \/ \E h \in VerifyReqs, u \in Users, oid \in OrderReqs, v \in BOOLEAN :
          VerifyGetPayment(h, u, oid, v)
    \/ \E h \in VerifyReqs : VerifyUpdatePayment(h)
    \/ \E h \in VerifyReqs, c \in TicketCodes : VerifyCreateTicket(h, c)
    \/ \E h \in VerifyReqs : VerifyUpdateSoldCount(h)

SpecAny == InitAny /\ [][NextAny]_vars

(***************************************************************************)
(* Properties of issuance (specification Spec).                            *)
(***************************************************************************)
\* the units a cart asks of tier t
RECURSIVE UnitsOn(_, _)
UnitsOn(items, t) ==
    IF items = <<>> THEN 0
    ELSE (IF Head(items).tierId = t THEN Head(items).quantity ELSE 0)
             + UnitsOn(Tail(items), t)

\* the units all the payments in rows 1..n ask of tier t
RECURSIVE OrderedUnits(_, _)
OrderedUnits(n, t) ==
    IF n = 0 THEN 0
    ELSE UnitsOn(payments[n].metadata, t) + OrderedUnits(n - 1, t)

TicketsOfPayment(p) == {k \in 1..Len(tickets) : tickets[k].paymentId = p}

Confirmed(h) == verify[h].pc = "done" /\ verify[h].res = "success"

\* C1: for every ticket tier, in every state reachable by any interleaving of
\* payment confirmations, 0 <= soldCount <= quantity.
C1_SoldCountWithinQuantity ==
    \A t \in Tiers :
        /\ 0 <= ticketTiers[t].soldCount
        /\ ticketTiers[t].soldCount <= ticketTiers[t].quantity

\* C3: two confirmations of the same payment yield the same ticket set: both
\* answer with the same tickets, the payment has no more tickets linked to it
\* than the first confirmation issued, and no tier's soldCount counts the
\* units of a payment more than once.
C3_ConfirmTwiceSameTickets ==
    \A h1 \in VerifyReqs, h2 \in VerifyReqs :
        (/\ h1 # h2
         /\ Confirmed(h1)
         /\ Confirmed(h2)
         /\ verify[h1].payment = verify[h2].payment)
        => /\ verify[h1].tickets = verify[h2].tickets
           /\ Cardinality(TicketsOfPayment(verify[h1].payment))
                  = Len(verify[h1].tickets)
           /\ \A t \in Tiers :
                  ticketTiers[t].soldCount
                      <= InitTiers[t].soldCount + OrderedUnits(Len(payments), t)

\* C4: when two confirmations of two different payments each ask 1 unit of a
\* tier with quantity 1 and soldCount 0, they do not both succeed.
C4_LastUnitIssuedOnce ==
    \A t \in Tiers :
        (ticketTiers[t].quantity = 1 /\ InitTiers[t].soldCount = 0)
        => ~ \E h1 \in VerifyReqs, h2 \in VerifyReqs :
                /\ verify[h1].payment # verify[h2].payment
                /\ Confirmed(h1)
                /\ Confirmed(h2)
                /\ verify[h1].items = <<[tierId |-> t, quantity |-> 1]>>
                /\ verify[h2].items = <<[tierId |-> t, quantity |-> 1]>>

\* C5: in every reachable state no two distinct ticket rows have the same
\* ticketCode.
C5_TicketCodesUnique ==
    \A j \in 1..Len(tickets), k \in 1..Len(tickets) :
        j # k => tickets[j].ticketCode # tickets[k].ticketCode

\* C5 witness: a confirmation drew a code that a ticket row already held, was
\* refused, and the table holds several tickets.
C5_Witness ==
    /\ Len(tickets) >= 2
    /\ \E h \in VerifyReqs : verify[h].pc = "done" /\ verify[h].res = "error"

\* the ticket rows a confirmation created, as the tiers they are on, and the
\* tiers its cart asks, one entry per unit
TierOfEach(ids) == [n \in 1..Len(ids) |-> tickets[ids[n]].ticketTierId]

RECURSIVE UnitTiers(_)
UnitTiers(items) ==
    IF items = <<>> THEN <<>>
    ELSE [n \in 1..Head(items).quantity |-> Head(items).tierId]
             \o UnitTiers(Tail(items))

\* every line of the cart still fits its tier, so it fitted when the
\* confirmation began (soldCount only grows here)
LinesFit(items) ==
    \A l \in 1..Len(items) :
        ticketTiers[items[l].tierId].soldCount + items[l].quantity
            <= ticketTiers[items[l].tierId].quantity

\* the units the confirmations that found their payment ask of tier t
RECURSIVE ConfirmedUnits(_, _)
ConfirmedUnits(n, t) ==
    IF n = 0 THEN 0
    ELSE (IF verify[n].payment # Null THEN UnitsOn(verify[n].items, t) ELSE 0)
             + ConfirmedUnits(n - 1, t)

\* C7: a confirmation of a payment whose cart lines all fit creates exactly
\* one ticket row per purchased unit, each on its line's tier, and raises each
\* tier's soldCount by the line's quantity.
C7_OneTicketPerUnit ==
    /\ \A h \in VerifyReqs :
          (verify[h].pc = "done" /\ verify[h].payment # Null
              /\ LinesFit(verify[h].items))
          => /\ verify[h].res = "success"
             /\ TierOfEach(verify[h].tickets) = UnitTiers(verify[h].items)
    /\ (\A h \in VerifyReqs :
           /\ verify[h].pc \in {"idle", "done"}
           /\ LinesFit(verify[h].items))
       => \A t \in Tiers :
             ticketTiers[t].soldCount
                 = InitTiers[t].soldCount + ConfirmedUnits(NVerify, t)

(***************************************************************************)
(* Scanning: the gate devices scan against a ticket table that holds two   *)
(* issued tickets of event E1: ticket 1 (code 1) in any status, ticket 2   *)
(* (code 2) confirmed.  A ticket in status scanned was scanned at instant  *)
(* 1 by u1.  The codes from 3 on belong to no ticket.                      *)
(***************************************************************************)
IssuedTicket(tierId, ticketCode, status) ==
    [ticketTierId |-> tierId, userId |-> "u1", paymentId |-> Null,
     ticketCode |-> ticketCode, status |-> status,
     scannedAt |-> IF status = "scanned" THEN 1 ELSE Null,
     scannedByUserId |-> IF status = "scanned" THEN "u1" ELSE "none"]

InitScan ==
    /\ ticketTiers = [InitTiers EXCEPT !["tA"].soldCount = 1, !["tB"].soldCount = 1]
    /\ payments = <<>>
    /\ \E st \in TicketStatus :
          tickets = <<IssuedTicket("tA", 1, st), IssuedTicket("tB", 2, "confirmed")>>
    /\ entryScans = <<>>
    /\ now = 2
    /\ order = [o \in OrderReqs |-> IdleOrder]
    /\ verify = [h \in VerifyReqs |-> IdleVerify]
    /\ scan = [s \in ScanReqs |-> IdleScan]
    /\ gen = IdleGen
    /\ cart = EmptyCart
    /\ users = InitUsers
    /\ organizations = <<>>
    /\ events = <<>>
    /\ create = [c \in CreateReqs |-> IdleCreate]

NextScan ==
    \/ Tick
    \/ \E s \in ScanReqs, u \in Users, c \in TicketCodes, e \in Events :
          ScanGetTicketByCode(s, u, c, e)
    \/ \E s \in ScanReqs : ScanGetTicketTier(s)
    \/ \E s \in ScanReqs : ScanUpdateTicket(s)
    \/ \E s \in ScanReqs : ScanCreateEntryScan(s)
    \/ \E s \in ScanReqs : ScanGetEvent(s)

SpecScan == InitScan /\ [][NextScan]_vars

(***************************************************************************)
(* Properties of scanning (specification SpecScan).                        *)
(***************************************************************************)
\* the event a ticket row belongs to, through its tier
EventOf(ticket) == ticketTiers[ticket.ticketTierId].eventId

CodeKnown(code) == \E k \in 1..Len(tickets) : tickets[k].ticketCode = code

\* C2: when all of N >= 2 concurrent scans carry the same ticket code and the
\* ticket's own event, and the ticket was confirmed, exactly one of them
\* returns success and every other returns already_scanned.
C2_ExactlyOneSuccess ==
    \A k \in 1..Len(tickets) :
        (/\ \A s \in ScanReqs :
               /\ scan[s].pc = "done"
               /\ scan[s].ticketCode = tickets[k].ticketCode
               /\ scan[s].eventId = EventOf(tickets[k])
         /\ \E s \in ScanReqs : scan[s].ticket.status = "confirmed")
        => /\ Cardinality({s \in ScanReqs : scan[s].res = "success"}) = 1
           /\ \A s \in ScanReqs : scan[s].res \in {"success", "already_scanned"}

\* C6: a scan of an existing ticket code against an event other than the one
\* its tier belongs to returns wrong_event, whatever the ticket's status: once
\* the handler has read the tier it is done, with wrong_event.
C6_WrongEventFirst ==
    \A s \in ScanReqs :
        (/\ scan[s].ticketId # Null
         /\ scan[s].pc # "getTicketTier"
         /\ EventOf(scan[s].ticket) # scan[s].eventId)
        => scan[s].pc = "done" /\ scan[s].res = "wrong_event"

\* C6 witness: a ticket scanned with success at its own event is then shown at
\* another event, found in status scanned, and answered wrong_event.
C6_Witness ==
    \E s1 \in ScanReqs, s2 \in ScanReqs :
        /\ scan[s1].res = "success"
        /\ scan[s2].ticketId = scan[s1].ticketId
        /\ scan[s2].ticket.status = "scanned"
        /\ scan[s2].ticket.scannedByUserId = scan[s1].userId
        /\ scan[s2].eventId # EventOf(scan[s2].ticket)
        /\ scan[s2].res = "wrong_event"

\* the step is the lookup of scan s
Looks(s) == scan[s].pc = "idle" /\ scan'[s].pc # "idle"

\* the step is one of scan s
Steps(s) == scan'[s] # scan[s]

\* C8: a scan of a code that matches no ticket returns scanResult invalid at
\* once, and the call creates or changes no ticket row and no EntryScan row.
C8_UnknownCodeInvalid ==
    [][\A s \in ScanReqs :
          (Looks(s) /\ ~ CodeKnown(scan'[s].ticketCode))
          => /\ scan'[s].pc = "done"
             /\ scan'[s].res = "invalid"
             /\ tickets' = tickets
             /\ entryScans' = entryScans]_vars

\* C8 witness: a scan of a code no ticket holds has answered invalid.
C8_Witness ==
    \E s \in ScanReqs :
        /\ scan[s].pc = "done"
        /\ ~ CodeKnown(scan[s].ticketCode)
        /\ scan[s].res = "invalid"
        /\ Len(tickets) > 0

\* scan s has read a ticket in status st and is made against event e
Saw(s, st) == scan'[s].ticketId # Null /\ scan'[s].ticket.status = st

\* C9: a scan of a confirmed ticket of event E1 with target event E2 # E1
\* returns wrong_event, and no step of the call changes the ticket table.
C9_WrongEventLeavesTicket ==
    [][\A s \in ScanReqs :
          (/\ Steps(s)
           /\ Saw(s, "confirmed")
           /\ EventOf(scan'[s].ticket) # scan'[s].eventId)
          => /\ tickets' = tickets
             /\ scan'[s].pc \in {"getTicketTier", "done"}
             /\ scan'[s].pc = "done" => scan'[s].res = "wrong_event"]_vars

\* C9 witness: a confirmed ticket was answered wrong_event and is still
\* confirmed and unscanned.
C9_Witness ==
    \E s \in ScanReqs :
        /\ scan[s].res = "wrong_event"
        /\ scan[s].ticket.status = "confirmed"
        /\ tickets[scan[s].ticketId].status = "confirmed"
        /\ tickets[scan[s].ticketId].scannedAt = Null

\* C10: a scan made at the ticket's own event after the ticket was scanned
\* (its lookup finds the status scanned) returns already_scanned, and no step
\* of the call changes the ticket table: scannedAt and scannedByUserId stay.
C10_LaterScanAlreadyScanned ==
    [][\A s \in ScanReqs :
          (/\ Steps(s)
           /\ Saw(s, "scanned")
           /\ EventOf(scan'[s].ticket) = scan'[s].eventId)
          => /\ tickets' = tickets
             /\ scan'[s].pc \in {"getTicketTier", "done"}
             /\ scan'[s].pc = "done" => scan'[s].res = "already_scanned"]_vars

\* C10 witness: a scan succeeded; a later scan by another user at a later
\* instant answered already_scanned and the ticket still carries the first
\* scan's instant and user.
C10_Witness ==
    \E s1 \in ScanReqs, s2 \in ScanReqs :
        /\ scan[s1].res = "success"
        /\ scan[s1].ticket.status = "confirmed"
        /\ scan[s2].ticketId = scan[s1].ticketId
        /\ scan[s2].res = "already_scanned"
        /\ scan[s2].userId # scan[s1].userId
        /\ tickets[scan[s1].ticketId].scannedByUserId = scan[s1].userId
        /\ tickets[scan[s1].ticketId].scannedAt < now
        /\ tickets[scan[s1].ticketId] = [scan[s2].ticket EXCEPT !.status = "scanned"]

(***************************************************************************)
(* Further properties of scanning (specification SpecScan).                *)
(***************************************************************************)
\* the scans that have answered and whose code resolved to a ticket
ResolvedScans == {s \in ScanReqs : scan[s].pc = "done" /\ scan[s].ticketId # Null}

\* the EntryScan rows that carry the outcome, user, event and ticket of scan s
RowsOf(s) ==
    {n \in 1..Len(entryScans) :
        /\ entryScans[n].ticketId = scan[s].ticketId
        /\ entryScans[n].scannedByUserId = scan[s].userId
        /\ entryScans[n].eventId = scan[s].eventId
        /\ entryScans[n].scanResult = scan[s].res}

\* C11: every scan whose code resolves to an existing ticket (wrong_event,
\* already_scanned, expired and success alike) appends exactly one EntryScan
\* row carrying its outcome, the scanning user and the requested event.
C11_OneEntryScanPerResolvedScan ==
    /\ \A s \in ResolvedScans : RowsOf(s) # {}
    /\ (\A s \in ScanReqs : scan[s].pc \in {"idle", "done"})
       => Len(entryScans) = Cardinality(ResolvedScans)

(***************************************************************************)
(* Further properties of issuance (specification Spec).                    *)
(***************************************************************************)
\* a line of the cart asks more units than its tier has in all, so its
\* capacity reservation cannot succeed
NeverFits(items) ==
    \E l \in 1..Len(items) :
        items[l].quantity > ticketTiers[items[l].tierId].quantity

\* C12: issuance is all-or-nothing per payment: a confirmation that fails, or
\* one of whose lines cannot be reserved, leaves no ticket of the payment and
\* no soldCount increase; a confirmation never ends with tickets for only
\* some of the units of its cart.
C12_AllOrNothing ==
    \A h \in VerifyReqs :
        (verify[h].pc = "done" /\ verify[h].payment # Null)
        => /\ Len(verify[h].tickets) \in {0, SumQuantity(verify[h].items)}
           /\ verify[h].res = "error"
                 => verify[h].tickets = <<>> /\ verify[h].line = 1
           /\ NeverFits(verify[h].items)
                 => TicketsOfPayment(verify[h].payment) = {}

\* C16: a code collision never makes the confirmation fail: no confirmation
\* that found its payment ends with an error.
C16_CollisionRetried ==
    \A h \in VerifyReqs :
        (verify[h].pc = "done" /\ verify[h].payment # Null)
        => verify[h].res = "success"

\* C17: every ticket created by issuance is confirmed, linked to the
\* confirmed payment, and carries the userId of that payment, whichever user
\* submits the confirmation.
C17_TicketOfPurchaser ==
    \A k \in 1..Len(tickets) :
        /\ tickets[k].paymentId \in 1..Len(payments)
        /\ tickets[k].status = "confirmed"
        /\ tickets[k].userId = payments[tickets[k].paymentId].userId

(***************************************************************************)
(* Properties of issuance under any signature and tier (SpecAny).          *)
(***************************************************************************)
\* C13: a confirmation whose gateway verification is false marks the payment
\* failed, creates no ticket and changes no soldCount.
C13_UnverifiedFails ==
    \A h \in VerifyReqs :
        (/\ verify[h].payment # Null
         /\ ~ verify[h].verified
         /\ verify[h].pc # "updatePayment")
        => /\ verify[h].tickets = <<>>
           /\ verify[h].line = 1
           /\ (\A g \in VerifyReqs :
                  verify[g].payment = verify[h].payment => ~ verify[g].verified)
              => payments[verify[h].payment].status = "failed"

\* C18: issuance of a cart line whose tier has isActive = FALSE is rejected:
\* no ticket is created on that tier and its soldCount is not increased.
C18_InactiveTierRejected ==
    \A t \in Tiers :
        ~ ticketTiers[t].isActive
        => /\ \A k \in 1..Len(tickets) : tickets[k].ticketTierId # t
           /\ ticketTiers[t].soldCount = InitTiers[t].soldCount

(***************************************************************************)
(* Properties of order creation (specification Spec).                      *)
(***************************************************************************)
\* the units of a cart, tier by tier
TotalUnits(items) == UnitsOn(items, "tA") + UnitsOn(items, "tB")

\* the step of create-order o that inserts the payment row
Inserts(o) == order[o].pc = "idle" /\ order'[o].pc # "idle"

\* the step of create-order o that attaches the external order id
Attaches(o) == order[o].pc = "updatePayment" /\ order'[o].pc = "done"

\* C14: createOrder creates exactly one Payment, in status pending, whose
\* metadata holds the submitted cart lines and whose ticketQuantity is the sum
\* of the line quantities; it creates no ticket and changes no soldCount, and
\* the payment is afterwards retrievable by the returned external order id.
C14_CreateOrderPending ==
    /\ [](\A o \in OrderReqs :
            order[o].pc = "done"
            => /\ getPaymentByRazorpayOrderId(order[o].payment) = order[o].payment
               /\ payments[order[o].payment].metadata = order[o].items
               /\ payments[order[o].payment].ticketQuantity
                      = TotalUnits(order[o].items))
    /\ [][\A o \in OrderReqs :
            /\ Inserts(o)
               => /\ Len(payments') = Len(payments) + 1
                  /\ SubSeq(payments', 1, Len(payments)) = payments
                  /\ order'[o].payment = Len(payments')
                  /\ payments'[Len(payments')].status = "pending"
                  /\ payments'[Len(payments')].metadata = order'[o].items
                  /\ payments'[Len(payments')].ticketQuantity
                         = TotalUnits(order'[o].items)
                  /\ tickets' = tickets
                  /\ ticketTiers' = ticketTiers
            /\ Attaches(o)
               => /\ Len(payments') = Len(payments)
                  /\ tickets' = tickets
                  /\ ticketTiers' = ticketTiers]_vars

\* C14 witness: an order of a two-line cart of three units is done; its
\* payment is pending, not yet confirmed, and found by its order id.
C14_Witness ==
    \E o \in OrderReqs :
        /\ order[o].pc = "done"
        /\ Len(order[o].items) = 2
        /\ payments[order[o].payment].ticketQuantity = 3
        /\ payments[order[o].payment].status = "pending"
        /\ getPaymentByRazorpayOrderId(order[o].payment) = order[o].payment
        /\ tickets = <<>>

\* C19: a scan, at the ticket's own event, of a ticket it finds cancelled or
\* refunded returns expired, and no step of the call changes the ticket table
\* (status, scannedAt and scannedByUserId stay).
C19_CancelledOrRefundedExpired ==
    [][\A s \in ScanReqs :
          (/\ Steps(s)
           /\ Saw(s, "cancelled") \/ Saw(s, "refunded")
           /\ EventOf(scan'[s].ticket) = scan'[s].eventId)
          => /\ tickets' = tickets
             /\ scan'[s].pc \in {"getTicketTier", "done"}
             /\ scan'[s].pc = "done" => scan'[s].res = "expired"]_vars

\* C19 witness: a refunded ticket shown at its own event was answered expired
\* and its row is the one the scan read.
C19_Witness ==
    \E s \in ScanReqs :
        /\ scan[s].pc = "done"
        /\ scan[s].res = "expired"
        /\ scan[s].ticket.status = "refunded"
        /\ EventOf(scan[s].ticket) = scan[s].eventId
        /\ tickets[scan[s].ticketId] = scan[s].ticket
        /\ tickets[scan[s].ticketId].scannedAt = Null

\* C20: a scan, at the ticket's own event, of a ticket it finds confirmed or
\* pending returns success and leaves the ticket with status scanned,
\* scannedAt set and scannedByUserId equal to the scanning user.
C20_SuccessLeavesScannedByScanner ==
    \A s \in ScanReqs :
        (/\ scan[s].pc = "done"
         /\ scan[s].ticketId # Null
         /\ scan[s].ticket.status \in {"confirmed", "pending"}
         /\ EventOf(scan[s].ticket) = scan[s].eventId)
        => /\ scan[s].res = "success"
           /\ tickets[scan[s].ticketId].status = "scanned"
           /\ tickets[scan[s].ticketId].scannedAt # Null
           /\ tickets[scan[s].ticketId].scannedByUserId = scan[s].userId

(***************************************************************************)
(* generateTicketCode(), statement by statement.  The issuance model above *)
(* draws a code from TicketCodes; here the string itself is built.         *)
(***************************************************************************)
\* (mutant) the base-32 alphabet of RFC 4648, which holds I and O
charsRfc4648 ==
    <<"A", "B", "C", "D", "E", "F", "G", "H", "I", "J", "K", "L", "M", "N", "O", "P",
      "Q", "R", "S", "T", "U", "V", "W", "X", "Y", "Z", "2", "3", "4", "5", "6", "7">>

\* const chars = 'ABCDEFGHJKLMNPQRSTUVWXYZ23456789'
chars ==
    <<"A", "B", "C", "D", "E", "F", "G", "H", "J", "K", "L", "M", "N", "P", "Q", "R",
      "S", "T", "U", "V", "W", "X", "Y", "Z", "2", "3", "4", "5", "6", "7", "8", "9">>

CodeLength == 8

\* String.prototype.charAt: positions count from 0
charAt(str, pos) == str[pos + 1]

\* Math.random(): the numerators k of the values k/RandGrid in [0, 1)
MathRandom == 0..(RandGrid - 1)

\* Math.floor((k / RandGrid) * length)
FloorOfRandomTimes(k, length) == (k * length) \div RandGrid

GenerateStart ==
    /\ gen.pc = "idle"
    /\ gen' = [pc |-> "loop", code |-> <<>>, i |-> 0]
    /\ UNCHANGED <<cart, users, organizations, events, create, ticketTiers, payments, tickets, entryScans, now,
                 order, verify, scan>>

GenerateChar(k) ==
    /\ gen.pc = "loop"
    /\ gen.i < CodeLength
    /\ gen' = [gen EXCEPT
                 !.code = Append(@, charAt(chars, FloorOfRandomTimes(k, Len(chars)))),
                 !.i = @ + 1]
    /\ UNCHANGED <<cart, users, organizations, events, create, ticketTiers, payments, tickets, entryScans, now,
                 order, verify, scan>>

GenerateReturn ==
    /\ gen.pc = "loop"
    /\ ~ (gen.i < CodeLength)
    /\ gen' = [gen EXCEPT !.pc = "done"]
    /\ UNCHANGED <<cart, users, organizations, events, create, ticketTiers, payments, tickets, entryScans, now,
                 order, verify, scan>>

NextCode ==
    \/ GenerateStart
    \/ \E k \in MathRandom : GenerateChar(k)
    \/ GenerateReturn

SpecCode == Init /\ [][NextCode]_vars

\* the letters and digits that do not look alike
Unambiguous ==
    {"A", "B", "C", "D", "E", "F", "G", "H", "J", "K", "L", "M", "N", "P", "Q", "R",
     "S", "T", "U", "V", "W", "X", "Y", "Z", "2", "3", "4", "5", "6", "7", "8", "9"}

C21_ScannedIsTerminal ==
    [][\A k \in 1..Len(tickets) :
          /\ tickets[k].status = "scanned" => tickets'[k].status = "scanned"
          /\ tickets'[k].status # tickets[k].status
             => /\ tickets[k].status \in {"pending", "confirmed"}
                /\ tickets'[k].status = "scanned"]_vars

\* C21 witness: two scans of one ticket both read it confirmed and both wrote
\* it; the ticket is scanned.
C21_Witness ==
    \E s1 \in ScanReqs, s2 \in ScanReqs :
        /\ s1 # s2
        /\ scan[s1].ticketId = scan[s2].ticketId
        /\ scan[s1].res = "success"
        /\ scan[s2].res = "success"
        /\ scan[s1].ticket.status = "confirmed"
        /\ tickets[scan[s1].ticketId].status = "scanned"

\* C22: EntryScan rows are only appended, never altered or removed, and a
\* ticket row is changed by the scan engine at most once: a step that changes
\* a ticket row changes a row no scan has marked scanned before.
C22_AppendOnlyAndOneMutation ==
    [][/\ Len(entryScans') >= Len(entryScans)
       /\ SubSeq(entryScans', 1, Len(entryScans)) = entryScans
       /\ \A k \in 1..Len(tickets) :
             tickets'[k] # tickets[k] => tickets[k].status # "scanned"]_vars

\* C30: every EntryScan row with scanResult success refers to a ticket whose
\* status is scanned and whose tier belongs to the event the row records.
C30_SuccessRowOfScannedTicket ==
    \A n \in 1..Len(entryScans) :
        entryScans[n].scanResult = "success"
        => /\ entryScans[n].ticketId \in 1..Len(tickets)
           /\ tickets[entryScans[n].ticketId].status = "scanned"
           /\ EventOf(tickets[entryScans[n].ticketId]) = entryScans[n].eventId

\* C30 witness: a success row is in the audit trail, written by a scan that
\* read the ticket pending, and the ticket was later shown at another event.
C30_Witness ==
    \E n \in 1..Len(entryScans), s1 \in ScanReqs, s2 \in ScanReqs :
        /\ entryScans[n].scanResult = "success"
        /\ scan[s1].ticketId = entryScans[n].ticketId
        /\ scan[s1].ticket.status = "pending"
        /\ scan[s1].res = "success"
        /\ scan[s2].ticketId = entryScans[n].ticketId
        /\ scan[s2].res = "wrong_event"

(***************************************************************************)
(* The payment life cycle (specification Spec).                            *)
(***************************************************************************)
\* the confirmations that have written status completed on payment p
Transitions(p) ==
    {h \in VerifyReqs : verify[h].payment = p
                        /\ verify[h].pc \notin {"idle", "updatePayment"}}

\* C23: each payment moves from pending to completed at most once: at most
\* one confirmation writes the transition of a payment, and the payment has
\* no more tickets than the one issuance of its ticketQuantity units makes.
C23_CompletedOnce ==
    \A p \in 1..Len(payments) :
        /\ Cardinality(Transitions(p)) <= 1
        /\ Cardinality(TicketsOfPayment(p)) <= payments[p].ticketQuantity

\* the tiers of the lines of a cart
TiersOfCart(items) == {items[l].tierId : l \in 1..Len(items)}

\* C24: the metadata cart of a payment is never changed after the payment is
\* created, a confirmation works on the stored cart, and every ticket it
\* inserts is on the tier of the stored cart line it is issuing.
C24_CartImmutable ==
    /\ [](\A h \in VerifyReqs :
             verify[h].payment # Null
             => verify[h].items = payments[verify[h].payment].metadata)
    /\ [][/\ \A p \in 1..Len(payments) :
                payments'[p].metadata = payments[p].metadata
          /\ \A h \in VerifyReqs :
                (verify'[h] # verify[h] /\ tickets' # tickets)
                => /\ tickets'[Len(tickets')].paymentId = verify[h].payment
                   /\ tickets'[Len(tickets')].ticketTierId
                         = payments[verify[h].payment].metadata[verify[h].line].tierId
                   /\ tickets'[Len(tickets')].ticketTierId
                         \in TiersOfCart(payments'[verify[h].payment].metadata)
         ]_vars

\* C24 witness: a payment with a two-line cart was created, got its order id,
\* was completed and issued in full, and still holds the cart it was created
\* with.
C24_Witness ==
    \E o \in OrderReqs, h \in VerifyReqs :
        /\ order[o].pc = "done"
        /\ Len(order[o].items) = 2
        /\ verify[h].payment = order[o].payment
        /\ Confirmed(h)
        /\ payments[order[o].payment].status = "completed"
        /\ payments[order[o].payment].metadata = order[o].items
        /\ Len(verify[h].tickets) = payments[order[o].payment].ticketQuantity

\* C28: every ticket that carries a paymentId refers to a payment whose status
\* is completed, in the middle of an issuance too.
C28_TicketOfCompletedPayment ==
    \A k \in 1..Len(tickets) :
        tickets[k].paymentId # Null
        => /\ tickets[k].paymentId \in 1..Len(payments)
           /\ payments[tickets[k].paymentId].status = "completed"

\* C28 witness: a confirmation is in the middle of its issuance, one ticket of
\* a two-unit line inserted and the next not yet.
C28_Witness ==
    \E h \in VerifyReqs :
        /\ verify[h].pc = "createTicket"
        /\ verify[h].i = 1
        /\ Len(verify[h].tickets) = 1
        /\ tickets[verify[h].tickets[1]].paymentId = verify[h].payment
        /\ payments[verify[h].payment].status = "completed"

(***************************************************************************)
(* Issuance with the carts the order endpoint accepts.  create-order reads *)
(* `items` from the request body and checks nothing: a line quantity is    *)
(* any number, also zero or negative.                                      *)
(***************************************************************************)
AcceptedItems == [tierId : Tiers, quantity : (0 - MaxQty)..MaxQty]

AcceptedCarts == {<<a>> : a \in AcceptedItems}

NextAccepted ==
    \/ \E o \in OrderReqs, u \in Buyers, c \in AcceptedCarts :
          CreateOrderCreatePayment(o, u, CartEvent(c), c)
    \/ \E o \in OrderReqs : CreateOrderUpdatePayment(o)
    \/ \E h \in VerifyReqs, u \in Users, oid \in OrderReqs :
          VerifyGetPayment(h, u, oid, TRUE)
    \/ \E h \in VerifyReqs : VerifyUpdatePayment(h)
    \/ \E h \in VerifyReqs, c \in TicketCodes : VerifyCreateTicket(h, c)
    \/ \E h \in VerifyReqs : VerifyUpdateSoldCount(h)

SpecAccepted == Init /\ [][NextAccepted]_vars

\* C25: a tier's soldCount never decreases: after every step of createOrder
\* and confirmPayment, with any cart the order endpoint accepts, soldCount is
\* at least what it was before the step.
C25_SoldCountNeverDecreases ==
    [][\A t \in Tiers :
          ticketTiers'[t].soldCount >= ticketTiers[t].soldCount]_vars

\* the ticket rows issued on tier t
TicketsOn(t) == {k \in 1..Len(tickets) : tickets[k].ticketTierId = t}

\* no confirmation is in progress and none has aborted with an error
Quiet ==
    \A h \in VerifyReqs :
        verify[h].pc \in {"idle", "done"} /\ verify[h].res # "error"

\* C29: soldCount of a tier never exceeds its initial soldCount plus the
\* number of ticket rows issued on the tier, and equals it whenever no
\* confirmation is in progress and none has aborted with an error.
C29_SoldCountCountsTickets ==
    \A t \in Tiers :
        /\ ticketTiers[t].soldCount
               <= InitTiers[t].soldCount + Cardinality(TicketsOn(t))
        /\ Quiet => ticketTiers[t].soldCount
                        = InitTiers[t].soldCount + Cardinality(TicketsOn(t))

(***************************************************************************)
(* The storefront cart (EventDetails and TicketTierCard).  The page shows  *)
(* the tiers as fetched once (queries never go stale), so the tier rows do *)
(* not change while the cart is filled.  A tier row can hold any quantity, *)
(* soldCount and maxPerOrder: POST /api/events stores the tiers of the     *)
(* request body as they come.  The event is published and not past, so the *)
(* buttons are rendered.                                                   *)
(***************************************************************************)
MaxPerOrderFallback == 10

Min(a, b) == IF a < b THEN a ELSE b

\* const available = tier.quantity - tier.soldCount
available(tier) == tier.quantity - tier.soldCount

\* const quantity = cartItem?.quantity || 0
quantity(tierId) ==
    IF tierId \in DOMAIN cart /\ cart[tierId].quantity # 0
    THEN cart[tierId].quantity ELSE 0

\* const maxPerOrder = tier.maxPerOrder || 10: NULL and 0 are falsy
maxPerOrder(tier) ==
    IF tier.maxPerOrder = {} \/ tier.maxPerOrder = {0}
    THEN MaxPerOrderFallback
    ELSE CHOOSE n \in tier.maxPerOrder : TRUE

canAdd(tierId) ==
    quantity(tierId) < Min(available(ticketTiers[tierId]),
                           maxPerOrder(ticketTiers[tierId]))

isSoldOut(tier) == available(tier) = 0

\* the cart after handleUpdateCart(tierId, newQuantity)
handleUpdateCart(tierId, newQuantity) ==
    IF newQuantity <= 0
    THEN [t \in DOMAIN cart \ {tierId} |-> cart[t]]
    ELSE [t \in DOMAIN cart \cup {tierId} |->
            IF t = tierId THEN [tierId |-> tierId, quantity |-> newQuantity]
            ELSE cart[t]]

\* a click on the increase button of a tier card
ClickIncrease(tierId) ==
    /\ ~ isSoldOut(ticketTiers[tierId])
    /\ canAdd(tierId)
    /\ cart' = handleUpdateCart(tierId, quantity(tierId) + 1)
    /\ UNCHANGED <<gen, users, organizations, events, create, ticketTiers, payments,
                   tickets, entryScans, now, order, verify, scan>>

\* a click on the decrease button of a tier card
ClickDecrease(tierId) ==
    /\ ~ isSoldOut(ticketTiers[tierId])
    /\ quantity(tierId) # 0
    /\ cart' = handleUpdateCart(tierId, quantity(tierId) - 1)
    /\ UNCHANGED <<gen, users, organizations, events, create, ticketTiers, payments,
                   tickets, entryScans, now, order, verify, scan>>

InitCart ==
    /\ \E q \in [Tiers -> 0..MaxStock], s \in [Tiers -> 0..MaxStock],
          m \in [Tiers -> {{}} \cup {{n} : n \in 0..MaxStock}] :
          ticketTiers = [t \in Tiers |->
                            [InitTiers[t] EXCEPT !.quantity = q[t],
                                                 !.soldCount = s[t],
                                                 !.maxPerOrder = m[t]]]
    /\ payments = <<>>
    /\ tickets = <<>>
    /\ entryScans = <<>>
    /\ now = 1
    /\ order = [o \in OrderReqs |-> IdleOrder]
    /\ verify = [h \in VerifyReqs |-> IdleVerify]
    /\ scan = [s \in ScanReqs |-> IdleScan]
    /\ gen = IdleGen
    /\ cart = EmptyCart
    /\ users = InitUsers
    /\ organizations = <<>>
    /\ events = <<>>
    /\ create = [c \in CreateReqs |-> IdleCreate]

NextCart ==
    \/ \E t \in Tiers : ClickIncrease(t)
    \/ \E t \in Tiers : ClickDecrease(t)

SpecCart == InitCart /\ [][NextCart]_vars

\* C26: after any sequence of increase and decrease clicks the cart holds no
\* line of quantity 0, and the quantity of every line is at most
\* min(quantity - soldCount, maxPerOrder) of its tier, where a tier without a
\* maxPerOrder has the cap 10.
C26_CartWithinLimits ==
    \A t \in DOMAIN cart :
        LET tier == ticketTiers[t]
            cap == IF tier.maxPerOrder = {} THEN 10
                   ELSE CHOOSE n \in tier.maxPerOrder : TRUE IN
          /\ cart[t].quantity >= 1
          /\ cart[t].quantity <= tier.quantity - tier.soldCount
          /\ cart[t].quantity <= cap

(***************************************************************************)
(* POST /api/events.  The event fields of the request body are valid (the  *)
(* insert of the event row succeeds); the body carries no tier or one.     *)
(***************************************************************************)
SlugLength == 8

\* String.prototype.slice(0, end)
slice(str, end) == SubSeq(str, 1, Min(end, Len(str)))

\* `org-${userId.slice(0, 8)}`
OrgSlug(userId) == <<"o", "r", "g", "-">> \o slice(userId, SlugLength)

\* the unique constraint of organizations.slug
SlugConflict(slug) ==
    \E n \in 1..Len(organizations) : organizations[n].slug = slug

createOrganization(data) == Append(organizations, data)

createEvent(data) == Append(events, data)

\* the tiers of a request body
TiersData == {<<>>, <<[quantity |-> MaxStock, maxPerOrder |-> {}]>>}

\* the table after createTicketTier: a row under a new id
createTicketTier(id, data) ==
    [t \in DOMAIN ticketTiers \cup {id} |->
        IF t = id THEN data ELSE ticketTiers[t]]

CreateEventGetUser(c, userId, tiersData) ==
    /\ create[c].pc = "idle"
    /\ Arrived(create, c)
    /\ create' = [create EXCEPT ![c] =
          [@ EXCEPT !.userId = userId, !.tiersData = tiersData,
                    !.organizationId = users[userId].organizationId,
                    !.pc = IF users[userId].organizationId = Null
                           THEN "createOrganization" ELSE "createEvent"]]
    /\ UNCHANGED <<gen, cart, users, organizations, events, ticketTiers, payments,
                   tickets, entryScans, now, order, verify, scan>>

CreateEventCreateOrganization(c) ==
    /\ create[c].pc = "createOrganization"
    /\ IF SlugConflict(OrgSlug(create[c].userId))
       THEN \* the insert throws; the catch block answers 500
            /\ create' = [create EXCEPT ![c].pc = "done", ![c].res = "error"]
            /\ UNCHANGED organizations
       ELSE /\ organizations' =
                   createOrganization([slug |-> OrgSlug(create[c].userId)])
            /\ create' = [create EXCEPT ![c].pc = "updateUser",
                                        ![c].organizationId = Len(organizations) + 1]
    /\ UNCHANGED <<gen, cart, users, events, ticketTiers, payments,
                   tickets, entryScans, now, order, verify, scan>>

CreateEventUpdateUser(c) ==
    /\ create[c].pc = "updateUser"
    /\ users' = [users EXCEPT ![create[c].userId].organizationId =
                                  create[c].organizationId]
    /\ create' = [create EXCEPT ![c].pc = "createEvent"]
    /\ UNCHANGED <<gen, cart, organizations, events, ticketTiers, payments,
                   tickets, entryScans, now, order, verify, scan>>

CreateEventCreateEvent(c) ==
    /\ create[c].pc = "createEvent"
    /\ events' = createEvent([organizationId |-> create[c].organizationId,
                              createdByUserId |-> create[c].userId,
                              status |-> "draft"])
    /\ create' = [create EXCEPT
          ![c].event = Len(events) + 1,
          ![c].pc = IF 0 < Len(create[c].tiersData) THEN "createTicketTier"
                    ELSE "done",
          ![c].res = IF 0 < Len(create[c].tiersData) THEN @ ELSE "success"]
    /\ UNCHANGED <<gen, cart, users, organizations, ticketTiers, payments,
                   tickets, entryScans, now, order, verify, scan>>

CreateEventCreateTicketTier(c) ==
    /\ create[c].pc = "createTicketTier"
    /\ LET data == create[c].tiersData[create[c].i + 1] IN
         ticketTiers' = createTicketTier(
             <<create[c].event, create[c].i>>,
             [eventId |-> create[c].event, quantity |-> data.quantity,
              soldCount |-> 0, isActive |-> TRUE,
              maxPerOrder |-> data.maxPerOrder, sortOrder |-> create[c].i])
    /\ create' = [create EXCEPT
          ![c].i = @ + 1,
          ![c].pc = IF create[c].i + 1 < Len(create[c].tiersData)
                    THEN "createTicketTier" ELSE "done",
          ![c].res = IF create[c].i + 1 < Len(create[c].tiersData)
                     THEN @ ELSE "success"]
    /\ UNCHANGED <<gen, cart, users, organizations, events, payments,
                   tickets, entryScans, now, order, verify, scan>>

\* no event and no tier yet
InitEvents ==
    /\ ticketTiers = [t \in {} |-> Null]
    /\ payments = <<>>
    /\ tickets = <<>>
    /\ entryScans = <<>>
    /\ now = 1
    /\ order = [o \in OrderReqs |-> IdleOrder]
    /\ verify = [h \in VerifyReqs |-> IdleVerify]
    /\ scan = [s \in ScanReqs |-> IdleScan]
    /\ gen = IdleGen
    /\ cart = EmptyCart
    /\ users = InitUsers
    /\ organizations = <<>>
    /\ events = <<>>
    /\ create = [c \in CreateReqs |-> IdleCreate]

NextEvents ==
    \/ \E c \in CreateReqs, u \in Organisers, td \in TiersData :
          CreateEventGetUser(c, u, td)
    \/ \E c \in CreateReqs : CreateEventCreateOrganization(c)
    \/ \E c \in CreateReqs : CreateEventUpdateUser(c)
    \/ \E c \in CreateReqs : CreateEventCreateEvent(c)
    \/ \E c \in CreateReqs : CreateEventCreateTicketTier(c)

SpecEvents == InitEvents /\ [][NextEvents]_vars

\* the users who have sent a create-event request
Requesters == {create[c].userId : c \in {d \in CreateReqs : create[d].pc # "idle"}}

\* C27: for users who start without an organization, whatever the
\* interleaving of their event-creation requests: every request that has
\* answered succeeded and its event is attached to the organization of its
\* user; all events of one user are in one organization; once the requests
\* have answered there is exactly one organization per requesting user; and
\* no two organizations have the same slug.
C27_OneOrganizationPerUser ==
    /\ \A c \in CreateReqs :
          create[c].pc = "done"
          => /\ create[c].res = "success"
             /\ events[create[c].event].organizationId
                    = users[create[c].userId].organizationId
    /\ \A e1 \in 1..Len(events), e2 \in 1..Len(events) :
          events[e1].createdByUserId = events[e2].createdByUserId
          => events[e1].organizationId = events[e2].organizationId
    /\ Len(organizations) <= Cardinality(Requesters)
    /\ (\A c \in CreateReqs : create[c].pc = "done")
       => Len(organizations) = Cardinality(Requesters)
    /\ \A n1 \in 1..Len(organizations), n2 \in 1..Len(organizations) :
          organizations[n1].slug = organizations[n2].slug => n1 = n2

====
